---- MODULE Spec2Model ----
(***************************************************************************)
(* A model of blsforme's file utilities (file_utils.rs) and boot entries   *)
(* (entry.rs): the content comparator changed_files / files_identical,     *)
(* the case-insensitive path resolver join_insensitive, the cmdline        *)
(* snippet loader Entry::load_cmdline_snippets and the naming functions    *)
(* Entry::installed_kernel_name / Entry::installed_asset_name.             *)
(*                                                                         *)
(* Text is modelled as a sequence of symbols.  A symbol is one character,  *)
(* the byte BAD (a byte that is not valid UTF-8, which a Unix file name or *)
(* path may hold), or a literal chunk of a format string.                  *)
(***************************************************************************)
EXTENDS Integers, Sequences, FiniteSets, TLC

VARIABLES
    \* changed_files: the slice given, the file system it reads, the position
    \* of the iterator, the one blake3 hasher, the vector collected so far
    files, fs, pos, hasher, changed, cf_pc,
    \* what each closure call of changed_files did (observation only)
    probe,
    \* the naming functions: the Schema, the Kernel of the Entry, the
    \* AuxiliaryFile last passed, the function last called and the Option
    \* it returned
    schema, kernel, asset, nm_call, nm_out,
    \* join_insensitive: the PathBuf it is called on, what fs::read_dir of
    \* it yields, the path argument and the PathBuf returned
    base_dir, listing, desired, jn_out,
    \* load_cmdline_snippets: the cmdline.d directory under each root, the
    \* root of the Configuration, the fields sysroot and cmdline of the Entry,
    \* the Result of the last load and the number of loads made
    dirs, config_root, sysroot, cmdline, ld_ret, loads,
    \* the Entry as it was before the last load (observation only)
    ld_pre

cfVars == <<files, fs, pos, hasher, changed, cf_pc, probe>>
nmVars == <<schema, kernel, asset, nm_call, nm_out>>
jnVars == <<base_dir, listing, desired, jn_out>>
ldVars == <<dirs, config_root, sysroot, cmdline, ld_ret, loads, ld_pre>>

vars == <<cfVars, nmVars, jnVars, ldVars>>

----------------------------------------------------------------------------
(* Bounds *)

MaxSize == 1
MaxPairs == 2
MaxPathLen == 3
MaxNameLen == 1
MaxEntries == 2
MaxChildren == 2
MaxLoads == 2

----------------------------------------------------------------------------
(* Symbols and text *)

BAD == "\\xFF"
REPL == "\\uFFFD"

\* Option<T>
None == <<>>
Some(x) == <<x>>

\* OsStr::to_string_lossy: every byte that is not valid UTF-8 becomes
\* U+FFFD REPLACEMENT CHARACTER, everything else is kept.
to_string_lossy(s) == [i \in DOMAIN s |-> IF s[i] = BAD THEN REPL ELSE s[i]]

\* The groups of variables a specification does not use stay at rest.
CfIdle ==
    /\ files = <<>> /\ fs = <<>> /\ pos = 0 /\ hasher = <<>>
    /\ changed = <<>> /\ cf_pc = "idle" /\ probe = <<>>
NmIdle ==
    /\ schema = "idle" /\ kernel = <<>> /\ asset = <<>>
    /\ nm_call = "idle" /\ nm_out = <<>>
JnIdle ==
    /\ base_dir = <<>> /\ listing = <<>> /\ desired = <<>> /\ jn_out = <<>>
LdIdle ==
    /\ dirs = <<>> /\ config_root = <<>> /\ sysroot = <<>> /\ cmdline = <<>>
    /\ ld_ret = "idle" /\ loads = 0 /\ ld_pre = <<>>

----------------------------------------------------------------------------
(* The file system seen by changed_files *)

Paths == {"p", "q"}
Bytes == {0, 1}
Contents == UNION {[1..n -> Bytes] : n \in 0..MaxSize}

\* What File::open and File::metadata find at a path.  "absent" is a path
\* File::open fails on (missing, or no permission).  File::open follows
\* symlinks, so the types metadata() reports are those of the target.
FileStates ==
    {[type |-> "absent", size |-> 0, data |-> <<>>]}
      \cup {[type |-> "dir", size |-> 1, data |-> <<>>]}
      \cup {[type |-> "file", size |-> Len(d), data |-> d] : d \in Contents}

\* The I/O errors the environment may raise during one comparison: none, a
\* failing metadata() call, or a read error in update_mmap_rayon of the first
\* or second file after k bytes were fed to the hasher.
IoFaults ==
    {[at |-> "none", k |-> 0], [at |-> "stat", k |-> 0]}
      \cup {[at |-> w, k |-> k] : w \in {"hashA", "hashB"}, k \in 0..MaxSize}

\* blake3::Hasher: its state is the bytes fed to it since the last reset.
\* The digest is taken to be collision free: it stands for the bytes hashed.
hasher_new == <<>>
finalize(h) == <<"blake3", h>>
reset(h) == <<>>

\* Hasher::update_mmap_rayon(path): reads the file into the hasher.  A
\* directory cannot be read (EISDIR, nothing is fed).  A file that is not
\* memory-mapped (a small or special file) is fed read by read, so a read
\* error after failAfter bytes leaves those bytes in the hasher.
\* failAfter = -1: no error.
update_mmap_rayon(h, f, failAfter) ==
    IF f.type = "dir" THEN [ok |-> FALSE, hasher |-> h]
    ELSE IF failAfter \in 0..Len(f.data)
         THEN [ok |-> FALSE, hasher |-> h \o SubSeq(f.data, 1, failAfter)]
         ELSE [ok |-> TRUE, hasher |-> h \o f.data]

metadata_differ_size_only(ma, mb) == ma.size # mb.size

\* fi_a_m.size() != fi_b_m.size() || fi_a_m.file_type() != fi_b_m.file_type()
metadata_differ(ma, mb) == ma.size # mb.size \/ ma.type # mb.type

\* files_identical(hasher, a, b): the Result it returns, the hasher it leaves
\* behind, and (starts) the hasher state at the start of each digest it
\* computed.
files_identical(h, fa, fb, io) ==
    IF fa.type = "absent" \/ fb.type = "absent" \/ io.at = "stat"
    THEN [ret |-> "Err", hasher |-> h, starts |-> <<>>]
    ELSE IF metadata_differ(fa, fb)
    THEN [ret |-> "Ok(false)", hasher |-> h, starts |-> <<>>]
    ELSE
      LET ua == update_mmap_rayon(h, fa, IF io.at = "hashA" THEN io.k ELSE -1)
      IN  IF ~ua.ok
          THEN [ret |-> "Err", hasher |-> ua.hasher, starts |-> <<h>>]
          ELSE
            LET result_a == finalize(ua.hasher)
                h1 == reset(ua.hasher)
                ub == update_mmap_rayon(h1, fb,
                                        IF io.at = "hashB" THEN io.k ELSE -1)
            IN  IF ~ub.ok
                THEN [ret |-> "Err", hasher |-> ub.hasher, starts |-> <<h, h1>>]
                ELSE
                  LET result_b == finalize(ub.hasher)
                  IN  [ret |-> IF result_a = result_b THEN "Ok(true)"
                                                       ELSE "Ok(false)",
                       hasher |-> reset(ub.hasher),
                       starts |-> <<h, h1>>]

filter_map_reversed(acc, pair, ret) ==
    IF ret = "Ok(true)" THEN acc ELSE <<pair>> \o acc

\* The filter_map closure of changed_files and collect(): a pair found
\* identical is dropped, any other (Ok(false), Err) is appended.
filter_map(acc, pair, ret) ==
    IF ret = "Ok(true)" THEN acc ELSE Append(acc, pair)

CfInit ==
    /\ files \in UNION {[1..n -> Paths \X Paths] : n \in 0..MaxPairs}
    /\ fs \in [Paths -> FileStates]
    /\ pos = 1
    /\ hasher = hasher_new
    /\ changed = <<>>
    /\ cf_pc = "iter"
    /\ probe = <<>>
    /\ NmIdle
    /\ JnIdle
    /\ LdIdle

\* One call of the closure: the next pair of the slice is compared.
Compare ==
    /\ cf_pc = "iter"
    /\ pos <= Len(files)
    /\ \E io \in IoFaults :
         LET r == files_identical(hasher, fs[files[pos][1]], fs[files[pos][2]], io)
             out == filter_map(changed, files[pos], r.ret)
         IN  /\ hasher' = r.hasher
             /\ changed' = out
             /\ probe' = Append(probe, [ret |-> r.ret, starts |-> r.starts,
                                        entry |-> hasher, exit |-> r.hasher,
                                        kept |-> Len(out) > Len(changed)])
    /\ pos' = pos + 1
    /\ UNCHANGED <<files, fs, cf_pc, nmVars, jnVars, ldVars>>

\* The iterator is exhausted: changed_files returns the collected vector.
Collect ==
    /\ cf_pc = "iter"
    /\ pos > Len(files)
    /\ cf_pc' = "done"
    /\ UNCHANGED <<files, fs, pos, hasher, changed, probe, nmVars, jnVars, ldVars>>

CfNext == Compare \/ Collect

SpecChanged == CfInit /\ [][CfNext]_vars

----------------------------------------------------------------------------
(* Properties of changed_files *)

Range(s) == {s[i] : i \in DOMAIN s}

SrcOf(i) == fs[files[i][1]]
DstOf(i) == fs[files[i][2]]

\* Both files of pair i exist, are regular files of equal size and hold the
\* same bytes.
IdenticalPair(i) ==
    /\ SrcOf(i).type = "file"
    /\ DstOf(i).type = "file"
    /\ SrcOf(i).size = DstOf(i).size
    /\ SrcOf(i).data = DstOf(i).data

\* The destination of pair i is missing, or both exist and differ in size or
\* in file type.
DecisiveMismatch(i) ==
    \/ DstOf(i).type = "absent"
    \/ /\ SrcOf(i).type # "absent"
       /\ DstOf(i).type # "absent"
       /\ (SrcOf(i).size # DstOf(i).size \/ SrcOf(i).type # DstOf(i).type)

\* C1: every pair whose two files could be opened and read (its comparison
\* met no I/O error) and that has equal size, equal type and identical
\* content is left out of the result, whatever happened to the pairs before.
C1_IdenticalPairsExcluded ==
    \A i \in 1..Len(probe) :
        (IdenticalPair(i) /\ probe[i].ret # "Err") => ~probe[i].kept

IsSubsequence(s, t) ==
    \E f \in [1..Len(s) -> 1..Len(t)] :
        /\ \A k \in 1..Len(s) : s[k] = t[f[k]]
        /\ \A j, k \in 1..Len(s) : j < k => f[j] < f[k]

\* C3: the vector changed_files has collected is, at every point and at its
\* return, a subsequence of the input slice in the input's order.
C3_OrderPreservingSubsequence == IsSubsequence(changed, files)

\* Two different pairs were given and both were returned.
C3_Witness ==
    /\ cf_pc = "done"
    /\ Len(changed) = 2
    /\ changed[1] # changed[2]

\* C4: a pair whose comparison met an I/O error is in the result, the call
\* runs to the end of the slice, and every pair whose comparison met no
\* error is reported according to its own two files: returned exactly when
\* they differ in size, type or content.
C4_FailureIsLocal ==
    /\ cf_pc = "done" => Len(probe) = Len(files)
    /\ \A i \in 1..Len(probe) :
         /\ probe[i].ret = "Err" => probe[i].kept
         /\ probe[i].ret # "Err" => (probe[i].kept <=> ~IdenticalPair(i))

\* The result of a comparator that builds a new hasher for every file: a
\* pair is returned when its comparison met an I/O error or its files differ.
FreshContextKept(i) == probe[i].ret = "Err" \/ ~IdenticalPair(i)

RECURSIVE FreshContextChanged(_)
FreshContextChanged(n) ==
    IF n = 0 THEN <<>>
    ELSE IF FreshContextKept(n)
         THEN Append(FreshContextChanged(n - 1), files[n])
         ELSE FreshContextChanged(n - 1)

\* C10: the one hasher is empty at the start of every digest computation,
\* and the result is that of a comparator with a new hasher per file.
C10_SharedHasherEquivalent ==
    /\ \A i \in 1..Len(probe) :
         \A k \in 1..Len(probe[i].starts) : probe[i].starts[k] = hasher_new
    /\ changed = FreshContextChanged(Len(probe))

----------------------------------------------------------------------------
(* The naming functions of Entry (entry.rs) *)

PathSymbols == {"/", ".", "a", BAD}
PathTexts == UNION {[1..n -> PathSymbols] : n \in 0..MaxPathLen}

\* The index of the last "/" of p, 0 when it has none.
LastSeparator(p) ==
    LET at == {i \in 1..Len(p) : p[i] = "/"}
    IN  IF at = {} THEN 0 ELSE CHOOSE i \in at : \A j \in at : j <= i

\* Path::file_name: the last component of the path when it is a normal one.
\* Components are read from the back: empty components (repeated and
\* trailing separators) and "." are passed over, ".." is no file name, and
\* a path that runs out (empty, the root, a leading ".") has none.
RECURSIVE file_name(_)
file_name(p) ==
    IF p = <<>> THEN None
    ELSE
      LET i == LastSeparator(p)
          comp == SubSeq(p, i + 1, Len(p))
      IN  IF comp = <<>> \/ comp = <<".">>
          THEN IF i = 0 THEN None ELSE file_name(SubSeq(p, 1, i - 1))
          ELSE IF comp = <<".", ".">> THEN None
          ELSE Some(comp)

\* Option::map
map_format(opt, prefix) ==
    IF opt = None THEN None ELSE Some(prefix \o to_string_lossy(opt[1]))

\* Entry::installed_kernel_name
installed_kernel_name(sch, k) ==
    IF sch = "Legacy"
    THEN map_format(file_name(k.image), <<"kernel-">>)
    ELSE Some(k.version \o <<"/vmlinuz">>)

installed_asset_name_any_kind(sch, k, a) ==
    IF sch = "Legacy"
    THEN map_format(file_name(a.path), <<"initrd-">>)
    ELSE map_format(file_name(a.path), k.version \o <<"/">>)

\* Entry::installed_asset_name
installed_asset_name(sch, k, a) ==
    IF sch = "Legacy"
    THEN IF a.kind = "InitRD"
         THEN map_format(file_name(a.path), <<"initrd-">>)
         ELSE None
    ELSE
      LET filename == file_name(a.path)
      IN  IF filename = None THEN None
          ELSE IF a.kind = "InitRD"
               THEN Some(k.version \o <<"/">> \o to_string_lossy(filename[1]))
               ELSE None

\* AuxiliaryFile { kind, path }
AuxiliaryFiles == [kind : {"InitRD", "Other"}, path : PathTexts]

NmInit ==
    /\ schema \in {"Legacy", "Blsforme"}
    /\ kernel \in [version : {<<"6", ".", "1">>}, image : PathTexts]
    /\ asset = None
    /\ nm_call = "none"
    /\ nm_out = None
    /\ CfIdle
    /\ JnIdle
    /\ LdIdle

CallInstalledKernelName ==
    /\ nm_call = "none"
    /\ nm_call' = "installed_kernel_name"
    /\ nm_out' = installed_kernel_name(schema, kernel)
    /\ UNCHANGED <<schema, kernel, asset, cfVars, jnVars, ldVars>>

CallInstalledAssetName ==
    /\ nm_call = "none"
    /\ nm_call' = "installed_asset_name"
    /\ \E a \in AuxiliaryFiles :
         /\ asset' = Some(a)
         /\ nm_out' = installed_asset_name(schema, kernel, a)
    /\ UNCHANGED <<schema, kernel, cfVars, jnVars, ldVars>>

NmNext == CallInstalledKernelName \/ CallInstalledAssetName

SpecNames == NmInit /\ [][NmNext]_vars

----------------------------------------------------------------------------
(* Properties of the naming functions *)

\* b is the basename of p: a component of p other than "." and "..", after
\* which p holds nothing but separators and "." components.
IsBasename(p, b) ==
    \E i \in 1..Len(p) : \E j \in i..Len(p) :
        /\ b = SubSeq(p, i, j)
        /\ \A k \in i..j : p[k] # "/"
        /\ i = 1 \/ p[i - 1] = "/"
        /\ j = Len(p) \/ p[j + 1] = "/"
        /\ b # <<".">> /\ b # <<".", ".">>
        /\ \A k \in (j + 1)..Len(p) : p[k] \in {"/", "."}
        /\ \A k \in (j + 1)..(Len(p) - 1) : ~(p[k] = "." /\ p[k + 1] = ".")

Basenames(p) ==
    {b \in {SubSeq(p, i, j) : i, j \in 1..Len(p)} : IsBasename(p, b)}

\* What the claim expects of one call: the name built from the basename by
\* render, None when the path has no basename.
Expected(p, prefix, render(_)) ==
    IF Basenames(p) = {} THEN {None}
    ELSE {Some(prefix \o render(b)) : b \in Basenames(p)}

Verbatim(b) == b

NamesAsClaimed(render(_)) ==
    /\ nm_call = "installed_kernel_name" =>
         IF schema = "Blsforme"
         THEN nm_out = Some(kernel.version \o <<"/vmlinuz">>)
         ELSE nm_out \in Expected(kernel.image, <<"kernel-">>, render)
    /\ nm_call = "installed_asset_name" =>
         IF asset[1].kind # "InitRD" THEN nm_out = None
         ELSE IF schema = "Legacy"
         THEN nm_out \in Expected(asset[1].path, <<"initrd-">>, render)
         ELSE nm_out \in Expected(asset[1].path, kernel.version \o <<"/">>, render)

\* C5 as stated: the names are built from the basename itself.
C5_NamesFromBasename == NamesAsClaimed(Verbatim)

\* C5, amended: the naming functions return None exactly when the path has
\* no basename (or, for an asset, the kind is not InitRD), and otherwise the
\* name built from the basename decoded lossily as UTF-8.
C5_NamesFromLossyBasename == NamesAsClaimed(to_string_lossy)

\* An InitRD asset whose basename holds a byte that is not UTF-8 was named
\* under Blsforme, with "." components after the basename.
C5_Witness ==
    /\ nm_call = "installed_asset_name"
    /\ schema = "Blsforme"
    /\ asset = Some([kind |-> "InitRD", path |-> <<BAD, "/", ".">>])
    /\ nm_out = Some(kernel.version \o <<"/", REPL>>)

----------------------------------------------------------------------------
(* PathExt::join_insensitive (file_utils.rs) *)

NameSymbols == {"a", "A", BAD, REPL}
FileNames == UNION {[1..n -> NameSymbols] : n \in 1..MaxNameLen}
ArgSymbols == {"a", "A", BAD, "/"}
ArgTexts == UNION {[1..n -> ArgSymbols] : n \in 0..MaxNameLen}

\* An item of the ReadDir iterator: the name of an entry, or an io::Error.
IoError == <<"io::Error">>
DirItems == FileNames \cup {IoError}

\* What fs::read_dir(dir) yields: an error (the directory is missing or not
\* readable), or the entries in the order the file system enumerates them.
\* No two entries of a directory have the same name.
Listings ==
    {[ok |-> FALSE, items |-> <<>>]}
      \cup {[ok |-> TRUE, items |-> it] :
              it \in {x \in UNION {[1..n -> DirItems] : n \in 0..MaxEntries} :
                        \A i, j \in DOMAIN x :
                            (i # j /\ x[i] # IoError) => x[i] # x[j]}}

\* str::to_lowercase
to_lowercase(s) == [i \in DOMAIN s |-> IF s[i] = "A" THEN "a" ELSE s[i]]

\* OsString::into_string: fails on a name that is not valid UTF-8.
into_string_ok(n) == \A i \in DOMAIN n : n[i] # BAD

\* PathBuf::join: an absolute argument replaces the path, any other is
\* appended, after a separator unless the path already ends with one.
join(base, path) ==
    IF path # <<>> /\ path[1] = "/" THEN path
    ELSE IF base # <<>> /\ base[Len(base)] # "/" THEN base \o <<"/">> \o path
    ELSE base \o path

RECURSIVE first_match(_, _)
\* The for loop over the entries: the first one that matches, None if none.
first_match(entries, wanted) ==
    IF entries = <<>> THEN None
    ELSE IF to_lowercase(Head(entries)) = wanted THEN Some(Head(entries))
    ELSE first_match(Tail(entries), wanted)

join_case_sensitive(base, dir, path) ==
    IF dir.ok /\ \E i \in DOMAIN dir.items : dir.items[i] = to_string_lossy(path)
    THEN join(base, to_string_lossy(path))
    ELSE join(base, path)

\* PathExt::join_insensitive
join_insensitive(base, dir, path) ==
    IF dir.ok
    THEN LET usable(e) == e # IoError /\ into_string_ok(e)
             entries == SelectSeq(dir.items, usable)
             found == first_match(entries, to_lowercase(to_string_lossy(path)))
         IN  IF found # None THEN join(base, found[1]) ELSE join(base, path)
    ELSE join(base, path)

JnInit ==
    /\ base_dir = <<"/boot">>
    /\ listing \in Listings
    /\ desired \in ArgTexts
    /\ jn_out = None
    /\ CfIdle
    /\ NmIdle
    /\ LdIdle

CallJoinInsensitive ==
    /\ jn_out = None
    /\ jn_out' = Some(join_insensitive(base_dir, listing, desired))
    /\ UNCHANGED <<base_dir, listing, desired, cfVars, nmVars, ldVars>>

JnNext == CallJoinInsensitive

SpecJoin == JnInit /\ [][JnNext]_vars

----------------------------------------------------------------------------
(* Properties of join_insensitive *)

Fold(c) == IF c = "A" THEN "a" ELSE c

\* Two names are equal up to the case of their letters.
CiEqual(m, n) ==
    /\ Len(m) = Len(n)
    /\ \A i \in 1..Len(m) : Fold(m[i]) = Fold(n[i])

\* The names of the entries of the directory that were enumerated without
\* error, are valid UTF-8 and match the name wanted.
MatchingEntries(wanted) ==
    IF listing.ok
    THEN {e \in Range(listing.items) \ {IoError} :
            into_string_ok(e) /\ CiEqual(e, wanted)}
    ELSE {}

JoinAsClaimed(wanted) ==
    jn_out # None =>
        IF MatchingEntries(wanted) # {}
        THEN \E e \in MatchingEntries(wanted) : jn_out = Some(join(base_dir, e))
        ELSE jn_out = Some(join(base_dir, desired))

----------------------------------------------------------------------------
(* Entry::new, Entry::with_sysroot, Entry::load_cmdline_snippets (entry.rs) *)

Roots == {<<"/">>, <<"/", "mnt">>}
SnippetNames == {<<"0", "0">>, <<"1", "0">>, <<BAD>>}
SnippetTexts == {<<"quiet">>, <<"rw", " ", "splash">>}

\* {root}/usr/lib/kernel/cmdline.d: missing, or a directory of files, each
\* with a name and a text.
CmdlineDirs ==
    {[exists |-> FALSE, children |-> <<>>]}
      \cup {[exists |-> TRUE, children |-> c] :
              c \in UNION {[N -> SnippetTexts] :
                             N \in {M \in SUBSET SnippetNames :
                                      Cardinality(M) <= MaxChildren}}}

\* The directories tried under the alternative sysroot: missing, empty, or
\* holding one snippet.
SysrootDirs ==
    {d \in CmdlineDirs :
       \A n \in DOMAIN d.children :
           DOMAIN d.children = {n} /\ d.children[n] = <<"quiet">>}

\* sysroot.join("usr").join("lib").join("kernel").join("cmdline.d")
cmdline_d(root) == join(join(join(join(root, <<"usr">>), <<"lib">>), <<"kernel">>),
                        <<"cmdline.d">>)

\* The orders in which fs::read_dir may enumerate the children of a directory.
Enumerations(d) ==
    {o \in [1..Cardinality(DOMAIN d.children) -> DOMAIN d.children] :
       \A i, j \in DOMAIN o : i # j => o[i] # o[j]}

\* The I/O errors of one load: none, fs::read_dir fails, or the k-th child
\* fails (its DirEntry is an error, or reading its text fails).
LoadFaults ==
    {[at |-> "none", k |-> 0], [at |-> "read_dir", k |-> 0]}
      \cup {[at |-> "child", k |-> k] : k \in 1..(MaxChildren + 1)}

\* file_utils::cmdline_snippet(path): the text of the file, as it is.
cmdline_snippet(text) == text

\* Entry::new
new == [sysroot |-> None, cmdline |-> <<>>]

RECURSIVE for_entries(_, _, _, _, _)
\* The for loop of load_cmdline_snippets from the i-th enumerated child on:
\* each child is pushed on the cmdline, the first failing one ends the call.
for_entries(acc, d, order, i, io) ==
    IF i > Len(order) THEN [ret |-> "Ok", cmdline |-> acc]
    ELSE IF io.at = "child" /\ io.k = i THEN [ret |-> "Err", cmdline |-> acc]
    ELSE for_entries(Append(acc, [name |-> to_string_lossy(order[i]),
                                  snippet |-> cmdline_snippet(d.children[order[i]])]),
                     d, order, i + 1, io)

load_cmdline_snippets_fresh_vec(acc, d, order, io) ==
    IF ~d.exists THEN [ret |-> "Ok", cmdline |-> acc]
    ELSE IF io.at = "read_dir" THEN [ret |-> "Err", cmdline |-> acc]
    ELSE for_entries(<<>>, d, order, 1, io)

\* Entry::load_cmdline_snippets on the directory d, enumerated in order.
load_cmdline_snippets(acc, d, order, io) ==
    IF ~d.exists THEN [ret |-> "Ok", cmdline |-> acc]
    ELSE IF io.at = "read_dir" THEN [ret |-> "Err", cmdline |-> acc]
    ELSE for_entries(acc, d, order, 1, io)

\* self.sysroot.clone().unwrap_or(config.root.path().into())
effective_root(sr, cfg) == IF sr = None THEN cfg ELSE sr[1]

LdInit ==
    /\ dirs \in {f \in [{cmdline_d(r) : r \in Roots} -> CmdlineDirs] :
                   f[cmdline_d(<<"/", "mnt">>)] \in SysrootDirs}
    /\ config_root = <<"/">>
    /\ sysroot = new.sysroot
    /\ cmdline = new.cmdline
    /\ ld_ret = "none"
    /\ loads = 0
    /\ ld_pre = new
    /\ CfIdle
    /\ NmIdle
    /\ JnIdle

\* Entry::with_sysroot
WithSysroot ==
    /\ \E r \in Roots : sysroot' = Some(r)
    /\ UNCHANGED <<dirs, config_root, cmdline, ld_ret, loads, ld_pre>>
    /\ UNCHANGED <<cfVars, nmVars, jnVars>>

LoadCmdlineSnippets ==
    /\ loads < MaxLoads
    /\ LET d == dirs[cmdline_d(effective_root(sysroot, config_root))]
       IN  \E order \in Enumerations(d), io \in LoadFaults :
             LET r == load_cmdline_snippets(cmdline, d, order, io)
             IN  /\ cmdline' = r.cmdline
                 /\ ld_ret' = r.ret
    /\ ld_pre' = [sysroot |-> sysroot, cmdline |-> cmdline]
    /\ loads' = loads + 1
    /\ UNCHANGED <<dirs, config_root, sysroot>>
    /\ UNCHANGED <<cfVars, nmVars, jnVars>>

LdNext == WithSysroot \/ LoadCmdlineSnippets

SpecLoad == LdInit /\ [][LdNext]_vars

----------------------------------------------------------------------------
(* Properties of load_cmdline_snippets *)

\* The directory the last load had to read: cmdline.d under the sysroot the
\* Entry had at the call, or under the configured root if it had none.
LoadedDir ==
    LET tail == <<"usr", "/", "lib", "/", "kernel", "/", "cmdline.d">>
    IN  IF ld_pre.sysroot = None THEN dirs[<<"/">> \o tail]
        ELSE IF ld_pre.sysroot[1] = <<"/">> THEN dirs[<<"/">> \o tail]
        ELSE dirs[ld_pre.sysroot[1] \o <<"/">> \o tail]

\* What the last load added to the cmdline, when it left the entries that
\* were there in place.
Loaded == SubSeq(cmdline, Len(ld_pre.cmdline) + 1, Len(cmdline))

KeepsEarlierEntries ==
    /\ Len(cmdline) >= Len(ld_pre.cmdline)
    /\ SubSeq(cmdline, 1, Len(ld_pre.cmdline)) = ld_pre.cmdline

LoadAsClaimed(render(_)) ==
    ld_ret = "Ok" =>
        /\ KeepsEarlierEntries
        /\ IF ~LoadedDir.exists THEN cmdline = ld_pre.cmdline
           ELSE \E o \in Enumerations(LoadedDir) :
                  Loaded = [k \in 1..Len(o) |->
                              [name |-> render(o[k]),
                               snippet |-> LoadedDir.children[o[k]]]]

CodePoint(c) == CASE c = "0" -> 48 [] c = "1" -> 49 [] OTHER -> 65533

RECURSIVE StrLess(_, _)
StrLess(m, n) ==
    IF n = <<>> THEN FALSE
    ELSE IF m = <<>> THEN TRUE
    ELSE IF CodePoint(Head(m)) # CodePoint(Head(n))
         THEN CodePoint(Head(m)) < CodePoint(Head(n))
         ELSE StrLess(Tail(m), Tail(n))

\* C8: after a successful load the entries it added are in the sort order
\* of their names, whatever order the file system enumerated them in.
C8_LoadedInNameOrder ==
    ld_ret = "Ok" =>
        \A i, j \in 1..Len(Loaded) :
            i < j => ~StrLess(Loaded[j].name, Loaded[i].name)

\* C9: a load that returns an error leaves entry.cmdline as it was before
\* the call.
C9_FailedLoadAddsNothing ==
    ld_ret = "Err" => cmdline = ld_pre.cmdline

====
